---- MODULE Spec2Model ----
(***************************************************************************)
(* Model of the log-structured key-value engine of src/engine/store.rs    *)
(* (KvStore): an append-only record log on disk, an in-memory index from  *)
(* key to (offset, size), a writer mutex, and cloneable handles used       *)
(* concurrently by several threads.                                        *)
(***************************************************************************)
EXTENDS Integers, Sequences, FiniteSets, TLC

(***************************************************************************)
(* Bounds of the model.                                                    *)
(***************************************************************************)
NThreads == 2
NKeys == 2
MaxValLen == 2
MaxLogLen == 9
MaxReopen == 1
MaxWorkers == 2
MaxJobs == 3
MaxConns == 11
MaxStarts == 3
MaxServed == 3
MaxLibWrites == 3
LibFileLimit == 3
LibInactiveLimit == 2
MaxLibOpens == 1
MaxFails == 1

Threads == 1..NThreads
Slots == 1..NThreads
Keys == 1..NKeys
\* Values are strings of 1..MaxValLen bytes (the byte 7 stands for any content).
Values == {[i \in 1..n |-> 7] : n \in 1..MaxValLen}

(***************************************************************************)
(* Record codec: enum KvRecord { Set((K, V)), Rm(K) } written with         *)
(* rmp_serde.  A record is a variant tag followed by its payload; strings  *)
(* carry their length, so a concatenation of records is self-delimiting.   *)
(* Keys are one byte long in the model, values 1..MaxValLen bytes.         *)
(***************************************************************************)
SetTag == 0
RmTag == 1

SetRec(k, v) == [tag |-> "Set", key |-> k, val |-> v]
RmRec(k) == [tag |-> "Rm", key |-> k, val |-> <<>>]
BadRec == [tag |-> "Err", key |-> 0, val |-> <<>>]

to_vec(rec) ==
    IF rec.tag = "Set"
    THEN <<SetTag, rec.key, Len(rec.val)>> \o rec.val
    ELSE <<RmTag, rec.key>>

\* Number of bytes the record starting at position p (1-based) of bytes b
\* occupies, 0 when the bytes at p are truncated or malformed.
RecordLen(b, p) ==
    IF p + 1 <= Len(b) /\ b[p] = RmTag THEN 2
    ELSE IF p + 2 <= Len(b) /\ b[p] = SetTag /\ p + 2 + b[p + 2] <= Len(b)
         THEN 3 + b[p + 2]
         ELSE 0

\* The record starting at position p (1-based) of bytes b.
RecordAt(b, p) ==
    IF RecordLen(b, p) = 0 THEN BadRec
    ELSE IF b[p] = RmTag THEN RmRec(b[p + 1])
    ELSE SetRec(b[p + 1], SubSeq(b, p + 3, p + 2 + b[p + 2]))

from_slice(buf) == RecordAt(buf, 1)

(***************************************************************************)
(* The file system and the handles.                                        *)
(***************************************************************************)
KvsFile == "1.kvs"
HasKvsExtension(f) == f \in {KvsFile}

\* config.info, which kvs-server writes into the database directory before it
\* opens the store: the JSON text "Kvs" (with its quotes), as bytes.
ConfigFile == "config.info"
ConfigBytes == <<34, 75, 118, 115, 34>>

ValueData(off, sz) == [offset |-> off, size |-> sz]
NoValueData == ValueData(0, 0)

OkUnit == [kind |-> "Ok", val |-> <<>>]
OkNone == [kind |-> "None", val |-> <<>>]
OkSome(v) == [kind |-> "Some", val |-> v]
ErrNonExistantKey == [kind |-> "NonExistantKey", val |-> <<>>]
ErrIO == [kind |-> "IOError", val |-> <<>>]
ErrSerialization == [kind |-> "SerializationError", val |-> <<>>]
NoResult == [kind |-> "Pending", val |-> <<>>]

\* files   the database directory: file name -> bytes on disk
\* writer  slot -> the BufWriterWithPosition behind the Mutex, and the Mutex
\* index   slot -> the DashMap: partial function key -> ValueData
\* handle  thread -> its KvStore handle (the Arcs it holds, its counter)
\* th      thread -> position in the current call and the call's locals
\* obs     thread -> what the current or last call found (history)
\* hist    history of the store as a whole
\* pool    the SharedQueueThreadPool: channel, receiver mutex, workers, jobs
\* srv     the TCP server: accepted connections and their handler threads
\* cfg     kvs-server's startup: the run of parse_kv_config and its history
\* conn    handler thread -> the connection it serves: request, bytes sent
\* lib     the RwLock-based KvStore of lib.rs: its files, the InnerStructs
\*         behind the RwLock, the lock, and the threads calling it
VARIABLES files, writer, index, handle, th, obs, hist, pool, srv, cfg, conn,
          lib

vars == <<files, writer, index, handle, th, obs, hist, pool, srv, cfg, conn,
          lib>>

\* The state of the server's startup and of its request handlers, and the
\* store of lib.rs.
rest == <<cfg, conn, lib>>

\* The state outside the storage engine.
others == <<pool, srv, rest>>

NoHandle == [alive |-> FALSE, writer |-> 0, index |-> 0, reader |-> "",
             uncompressed_bytes |-> 0]
IdleWriter == [path |-> "", position |-> 0, buf |-> <<>>, lock |-> 0]
EmptyIndex == [k \in {} |-> NoValueData]
IdleThread == [pc |-> "idle", op |-> "none", key |-> 0, val |-> <<>>,
               vd |-> NoValueData, prev |-> NoValueData, res |-> NoResult]

\* Variant: an entry that exists is kept.
IndexInsertIfAbsent(ix, k, vd) ==
    [x \in (DOMAIN ix) \cup {k} |-> IF x \in DOMAIN ix THEN ix[x] ELSE vd]

IndexInsert(ix, k, vd) ==
    [x \in (DOMAIN ix) \cup {k} |-> IF x = k THEN vd ELSE ix[x]]
\* Variant: nothing is removed.
IndexRemoveKeep(ix, k) == ix

IndexRemove(ix, k) == [x \in (DOMAIN ix) \ {k} |-> ix[x]]

(***************************************************************************)
(* History variables.  hist.value is the abstract map: the value each key  *)
(* holds, changed at the instant a set or remove changes the index.        *)
(***************************************************************************)
NoObs == [expect |-> NoResult, floor |-> -1, by |-> 0, absent |-> FALSE,
          sessAbsent |-> FALSE, off |-> -1, snapLen |-> 0, snapPos |-> 0,
          snapIndex |-> EmptyIndex, effect |-> FALSE]
InitHist == [value |-> [k \in {} |-> <<>>],
             by |-> [k \in Keys |-> 0],
             sessRemoved |-> {},
             lastRet |-> [k \in Keys |-> -1],
             order |-> <<>>,
             inserted |-> <<>>,
             reopens |-> 0,
             justOpened |-> FALSE,
             closedIndex |-> EmptyIndex,
             superseded |-> 0,
             selected |-> "",
             created |-> FALSE,
             fails |-> 0]

Expected(k) == IF k \in DOMAIN hist.value THEN OkSome(hist.value[k]) ELSE OkNone

(***************************************************************************)
(* Pieces of the operations.                                               *)
(***************************************************************************)
ActiveLog(t) == files[writer[handle[t].writer].path]

\* store.rs get, lines 121-129: read_exact_at of size bytes at offset, then
\* from_slice; a Set record yields its value, anything else None.
ReadValue(file, vd) ==
    IF vd.offset + vd.size > Len(file) THEN ErrIO
    ELSE LET rec == from_slice(SubSeq(file, vd.offset + 1, vd.offset + vd.size))
         IN  IF rec.tag = "Err" THEN ErrSerialization
             ELSE IF rec.tag = "Set" THEN OkSome(rec.val)
             ELSE OkNone

\* What get(k) through handle t returns when it runs alone in this state.
GetOutcome(t, k) ==
    LET ix == index[handle[t].index]
    IN  IF k \in DOMAIN ix THEN ReadValue(files[handle[t].reader], ix[k])
        ELSE OkNone

\* A dashmap Ref of key k is held (by a get between its lookup and the end
\* of its read): insert and remove of k on that map wait for it.
RefHeld(ixSlot, k) ==
    \E u \in Threads : /\ th[u].pc = "get_read"
                       /\ handle[u].index = ixSlot
                       /\ th[u].key = k

\* Variant: the first record of a key wins.
OpenApplyFirstWins(ix, rec, vd) ==
    IF rec.key \in DOMAIN ix THEN ix
    ELSE [x \in (DOMAIN ix) \cup {rec.key} |-> IF x = rec.key THEN vd ELSE ix[x]]

\* Variant: an Rm record is skipped.
OpenApplySkipRm(ix, rec, vd) ==
    IF rec.tag = "Set"
    THEN [x \in (DOMAIN ix) \cup {rec.key} |-> IF x = rec.key THEN vd ELSE ix[x]]
    ELSE ix

\* The closure of open, lines 228-236: what one replayed record does to
\* the index.
OpenApply(ix, rec, vd) ==
    IF rec.tag = "Set" THEN IndexInsert(ix, rec.key, vd)
    ELSE IndexInsert(ix, rec.key, vd)

\* deserialize_file, lines 205-223, applied with the closure of open.
RECURSIVE Replay(_, _, _)
Replay(file, position, ix) ==
    IF position >= Len(file) THEN [ok |-> TRUE, index |-> ix]
    ELSE LET n == RecordLen(file, position + 1)
         IN  IF n = 0 THEN [ok |-> FALSE, index |-> ix]
             ELSE Replay(file, position + n,
                         OpenApply(ix, RecordAt(file, position + 1),
                                   ValueData(position, n)))

(***************************************************************************)
(* Initial state: KvStore::open on an empty directory; thread 1 holds the  *)
(* handle that open returned.                                              *)
(***************************************************************************)
OpenedHandle(path) ==
    [alive |-> TRUE, writer |-> 1, index |-> 1, reader |-> path,
     uncompressed_bytes |-> 0]

(***************************************************************************)
(* SharedQueueThreadPool (thread_pool/shared_queue.rs): the channel, the   *)
(* Mutex around its Receiver, the worker threads, and the thread that owns *)
(* the pool.  Jobs are numbered in the order of their spawn.               *)
(***************************************************************************)
Workers == 1..MaxWorkers
Jobs == 1..MaxJobs

RunMsg(j) == [kind |-> "Run", job |-> j]
ShutdownMsg == [kind |-> "Shutdown", job |-> 0]

\* SharedQueueThreadPool::new(n), lines 59-70: n workers, all about to lock
\* the receiver.
PoolInit(n) ==
    [n |-> n,
     queue |-> <<>>,
     lock |-> 0,
     poisoned |-> FALSE,
     sender |-> TRUE,
     owner |-> "live",
     panicking |-> FALSE,
     sent |-> 0,
     joined |-> 0,
     spawned |-> 0,
     worker |-> [w \in Workers |->
                   [pc |-> IF w <= n THEN "lock" ELSE "none", job |-> 0]],
     job |-> [j \in Jobs |-> [status |-> "new", by |-> 0, runs |-> 0]],
     started |-> <<>>,
     result |-> OkUnit,
     failed |-> FALSE]

(***************************************************************************)
(* The server, bin/kvs-server.rs start_listening: connections are numbered *)
(* in the order they are accepted; each has a handler thread.              *)
(***************************************************************************)
PoolThreads == 10
Conns == 1..MaxConns

SrvInit == [accepted |-> 0, conn |-> [c \in Conns |-> "none"]]

(***************************************************************************)
(* kvs-server's engine selection (bin/kvs-server.rs, parse_kv_config):     *)
(* KvsEngineType as JSON text in config.info.  serde_json writes a unit    *)
(* variant as its name in quotes and reads it back only from exactly that  *)
(* text.                                                                   *)
(***************************************************************************)
Engines == {"Kvs", "Sled"}
NoEngine == "None"

SledBytes == <<34, 83, 108, 101, 100, 34>>

\* serde_json::to_writer(file, &engine)
EngineJson(e) == IF e = "Kvs" THEN ConfigBytes ELSE SledBytes

\* serde_json::from_reader(file): the engine, or NoEngine for a parse error
DecodeEngine(bytes) ==
    IF bytes = ConfigBytes THEN "Kvs"
    ELSE IF bytes = SledBytes THEN "Sled"
    ELSE NoEngine

CfgOk(e) == [kind |-> "Ok", engine |-> e]
CfgErr(kind) == [kind |-> kind, engine |-> NoEngine]

NoConfig == [exists |-> FALSE, bytes |-> <<>>]

CfgInit(dir) ==
    [dir |-> dir, pc |-> "idle", req |-> NoEngine, ret |-> CfgErr("Pending"),
     starts |-> 0, before |-> NoConfig, first |-> NoEngine, wrong |-> 0]


(***************************************************************************)
(* A request handler of kvs-server (the closure of start_listening, lines  *)
(* 69-88): the request read from the stream, and what was written back.    *)
(***************************************************************************)
NoRequest == [op |-> "none", key |-> 0, val |-> <<>>]
Requests ==
    {[op |-> "set", key |-> k, val |-> v] : k \in Keys, v \in Values}
    \cup {[op |-> o, key |-> k, val |-> <<>>] : o \in {"get", "remove"}, k \in Keys}

\* KvResponse { value: result } as serde_json writes it, and the delimiter
KvResponse(result) == [kind |-> "response", value |-> result]
Delimiter == [kind |-> "delimiter", value |-> NoResult]

IdleHandler == [pc |-> "none", request |-> NoRequest, out |-> <<>>, served |-> 0]
ReqInit == [t \in Threads |-> IdleHandler]

(***************************************************************************)
(* The RwLock-based KvStore of lib.rs (mod store, lines 214-520).  Its log *)
(* files are numbered in the order of their creation (their names are the  *)
(* creation times); file 1 is the one open creates in an empty directory.  *)
(***************************************************************************)
LibFiles == 1..(MaxLibWrites + 2)

LibValueData(off, sz, path) == [offset |-> off, size |-> sz, file_path |-> path]

IdleLibThread ==
    [pc |-> "idle", op |-> "none", key |-> 0, command |-> BadRec,
     res |-> NoResult, lookup |-> NoResult, rotation |-> NoResult,
     seen |-> LibValueData(0, 0, 0)]

\* open on an empty directory, lines 445-468 with new, lines 367-395
\* History: what the last open was given and what it built; last is, for
\* every key, the location of the record written last.
NoLibOpen ==
    [listing |-> <<>>, newest |-> 0, ok |-> FALSE,
     active_file |-> 0,
     key_map |-> [k \in {} |-> LibValueData(0, 0, 0)],
     last |-> [k \in {} |-> LibValueData(0, 0, 0)]]

LibInit ==
    [disk |-> [f \in {1} |-> <<>>],
     created |-> 1,
     inner |-> [bytes_in_last_file |-> 0,
                active_file |-> 1,
                inactive_files |-> <<>>,
                key_map |-> [k \in {} |-> LibValueData(0, 0, 0)]],
     lock |-> [writer |-> 0, poisoned |-> FALSE],
     writes |-> 0,
     t |-> [t \in Threads |-> IdleLibThread],
     last |-> [k \in {} |-> LibValueData(0, 0, 0)],
     opens |-> 0,
     opened |-> NoLibOpen]

Init ==
    /\ pool = PoolInit(0)
    /\ srv = SrvInit
    /\ cfg = CfgInit(TRUE)
    /\ conn = ReqInit
    /\ lib = LibInit
    /\ files = [f \in {KvsFile} |-> <<>>]
    /\ writer = [s \in Slots |->
                   IF s = 1 THEN [IdleWriter EXCEPT !.path = KvsFile]
                   ELSE IdleWriter]
    /\ index = [s \in Slots |-> EmptyIndex]
    /\ handle = [t \in Threads |-> IF t = 1 THEN OpenedHandle(KvsFile) ELSE NoHandle]
    /\ th = [t \in Threads |-> IdleThread]
    /\ obs = [t \in Threads |-> NoObs]
    /\ hist = InitHist

(***************************************************************************)
(* impl Clone for KvStore, lines 87-96: the Arcs are shared, the counter   *)
(* is a new AtomicU64 holding the current value.                           *)
(***************************************************************************)
\* Variant: the clone gets a copy of the index instead of sharing it.
CloneCopiesIndex(s, t) ==
    /\ handle[s].alive
    /\ ~handle[t].alive
    /\ handle' = [handle EXCEPT ![t] =
                    [alive |-> TRUE,
                     writer |-> handle[s].writer,
                     index |-> t,
                     reader |-> handle[s].reader,
                     uncompressed_bytes |-> handle[s].uncompressed_bytes]]
    /\ index' = [index EXCEPT ![t] = index[handle[s].index]]
    /\ UNCHANGED <<files, writer, th, obs, hist, others>>

Clone(s, t) ==
    /\ handle[s].alive
    /\ ~handle[t].alive
    /\ handle' = [handle EXCEPT ![t] =
                    [alive |-> TRUE,
                     writer |-> handle[s].writer,
                     index |-> handle[s].index,
                     reader |-> handle[s].reader,
                     uncompressed_bytes |-> handle[s].uncompressed_bytes]]
    /\ UNCHANGED <<files, writer, index, th, obs, hist, others>>

(***************************************************************************)
(* set, lines 104-118.                                                     *)
(***************************************************************************)
\* Variant: the writer mutex is not waited for.
SetLockNoMutex(t, k, v) ==
    LET w == handle[t].writer
        serialized == to_vec(SetRec(k, v))
    IN  /\ handle[t].alive
        /\ th[t].pc = "idle"
        /\ Len(files[writer[w].path]) + Len(serialized) <= MaxLogLen
        /\ writer' = [writer EXCEPT ![w].lock = t]
        /\ th' = [th EXCEPT ![t] =
                    [pc |-> "set_write", op |-> "set", key |-> k, val |-> v,
                     vd |-> ValueData(writer[w].position, Len(serialized)),
                     prev |-> NoValueData, res |-> NoResult]]
        /\ obs' = [obs EXCEPT ![t] = NoObs]
        /\ hist' = [hist EXCEPT
                      !.order = Append(@, [t |-> t, key |-> k,
                                           offset |-> writer[w].position]),
                      !.justOpened = FALSE]
        /\ UNCHANGED <<files, index, handle, others>>

\* 105-110: serialize, take the writer mutex, note position and size.
SetLock(t, k, v) ==
    LET w == handle[t].writer
        serialized == to_vec(SetRec(k, v))
    IN  /\ handle[t].alive
        /\ th[t].pc = "idle"
        /\ writer[w].lock = 0
        /\ Len(files[writer[w].path]) + Len(serialized) <= MaxLogLen
        /\ writer' = [writer EXCEPT ![w].lock = t]
        /\ th' = [th EXCEPT ![t] =
                    [pc |-> "set_write", op |-> "set", key |-> k, val |-> v,
                     vd |-> ValueData(writer[w].position, Len(serialized)),
                     prev |-> NoValueData, res |-> NoResult]]
        /\ obs' = [obs EXCEPT ![t] = NoObs]
        /\ hist' = [hist EXCEPT
                      !.order = Append(@, [t |-> t, key |-> k,
                                           offset |-> writer[w].position]),
                      !.justOpened = FALSE]
        /\ UNCHANGED <<files, index, handle, others>>

\* 111: write_all into the BufWriter.
SetWrite(t) ==
    LET w == handle[t].writer
    IN  /\ th[t].pc = "set_write"
        /\ writer' = [writer EXCEPT
                        ![w].buf = @ \o to_vec(SetRec(th[t].key, th[t].val))]
        /\ th' = [th EXCEPT ![t].pc = "set_flush"]
        /\ UNCHANGED <<files, index, handle, obs, hist, others>>

\* One write(2) of BufWriter::flush: a non-empty prefix of the buffer is
\* appended to the file (opened with append(true)).
FlushChunk(t, n, next) ==
    LET w == handle[t].writer
        path == writer[w].path
    IN  /\ n \in 1..Len(writer[w].buf)
        /\ files' = [files EXCEPT ![path] = @ \o SubSeq(writer[w].buf, 1, n)]
        /\ writer' = [writer EXCEPT
                        ![w].buf = SubSeq(@, n + 1, Len(@))]
        /\ th' = [th EXCEPT ![t].pc =
                    IF n = Len(writer[w].buf) THEN next ELSE th[t].pc]

\* Variant: the buffer is not flushed.
SetFlushSkipped(t) ==
    /\ th[t].pc = "set_flush"
    /\ th' = [th EXCEPT ![t].pc = "set_pos"]
    /\ UNCHANGED <<files, writer, index, handle, obs, hist, others>>

\* 112: flush.
SetFlush(t) ==
    /\ th[t].pc = "set_flush"
    /\ \E n \in 1..MaxValLen + 3 : FlushChunk(t, n, "set_pos")
    /\ UNCHANGED <<index, handle, obs, hist, others>>

\* Variant: the position is not advanced.
SetPositionKept(t) ==
    /\ th[t].pc = "set_pos"
    /\ th' = [th EXCEPT ![t].pc = "set_index"]
    /\ UNCHANGED <<files, writer, index, handle, obs, hist, others>>

\* 113: writer.position += serialized.len().
SetPosition(t) ==
    LET w == handle[t].writer
    IN  /\ th[t].pc = "set_pos"
        /\ writer' = [writer EXCEPT ![w].position = @ + th[t].vd.size]
        /\ th' = [th EXCEPT ![t].pc = "set_index"]
        /\ UNCHANGED <<files, index, handle, obs, hist, others>>

\* 114-116: index.insert and, on an overwrite, fetch_add of the old size.
SetIndex(t) ==
    LET i == handle[t].index
        k == th[t].key
    IN  /\ th[t].pc = "set_index"
        /\ ~RefHeld(i, k)
        /\ index' = [index EXCEPT ![i] = IndexInsert(@, k, th[t].vd)]
        /\ handle' = [handle EXCEPT ![t].uncompressed_bytes =
                        IF k \in DOMAIN index[i] THEN @ + index[i][k].size ELSE @]
        /\ th' = [th EXCEPT ![t].pc = "set_ret"]
        /\ hist' = [hist EXCEPT
                      !.value = [x \in (DOMAIN @) \cup {k} |->
                                   IF x = k THEN th[t].val ELSE @[x]],
                      !.by[k] = t,
                      !.sessRemoved = @ \ {k},
                      !.inserted = Append(@, [t |-> t, key |-> k,
                                              offset |-> th[t].vd.offset]),
                      !.superseded =
                          IF k \in DOMAIN index[i] THEN @ + index[i][k].size ELSE @]
        /\ UNCHANGED <<files, writer, obs, others>>

\* 117: Ok(()), the MutexGuard is dropped.
SetReturn(t) ==
    LET w == handle[t].writer
    IN  /\ th[t].pc = "set_ret"
        /\ writer' = [writer EXCEPT ![w].lock = 0]
        /\ th' = [th EXCEPT ![t].pc = "idle", ![t].res = OkUnit]
        /\ hist' = [hist EXCEPT !.lastRet[th[t].key] = th[t].vd.offset]
        /\ UNCHANGED <<files, index, handle, obs, others>>

(***************************************************************************)
(* get, lines 119-133.  No mutex is taken.                                 *)
(***************************************************************************)
\* 120: index.get; the Ref stays alive until the read below is done.
GetLookup(t, k) ==
    LET ix == index[handle[t].index]
    IN  /\ handle[t].alive
        /\ th[t].pc = "idle"
        /\ th' = [th EXCEPT ![t] =
                    IF k \in DOMAIN ix
                    THEN [pc |-> "get_read", op |-> "get", key |-> k,
                          val |-> <<>>, vd |-> ix[k], prev |-> NoValueData,
                          res |-> NoResult]
                    ELSE [pc |-> "idle", op |-> "get", key |-> k,
                          val |-> <<>>, vd |-> NoValueData,
                          prev |-> NoValueData, res |-> OkNone]]
        /\ obs' = [obs EXCEPT ![t] =
                     [NoObs EXCEPT !.expect = Expected(k),
                                   !.floor = hist.lastRet[k],
                                   !.by = hist.by[k],
                                   !.absent = (k \notin DOMAIN hist.value),
                                   !.sessAbsent = (k \in hist.sessRemoved),
                                   !.off = IF k \in DOMAIN ix
                                           THEN ix[k].offset ELSE -1]]
        /\ UNCHANGED <<files, writer, index, handle, hist, others>>

\* 121-129: read_exact_at through the shared reader, decode, return.
GetRead(t) ==
    /\ th[t].pc = "get_read"
    /\ th' = [th EXCEPT ![t].pc = "idle",
                        ![t].res = ReadValue(files[handle[t].reader], th[t].vd)]
    /\ UNCHANGED <<files, writer, index, handle, obs, hist, others>>

(***************************************************************************)
(* remove, lines 134-150.                                                  *)
(***************************************************************************)
\* 135: take the writer mutex.
RemoveLock(t, k) ==
    LET w == handle[t].writer
    IN  /\ handle[t].alive
        /\ th[t].pc = "idle"
        /\ writer[w].lock = 0
        /\ Len(files[writer[w].path]) + Len(to_vec(RmRec(k))) <= MaxLogLen
        /\ writer' = [writer EXCEPT ![w].lock = t]
        /\ th' = [th EXCEPT ![t] =
                    [pc |-> "rm_lookup", op |-> "remove", key |-> k,
                     val |-> <<>>, vd |-> NoValueData, prev |-> NoValueData,
                     res |-> NoResult]]
        /\ obs' = [obs EXCEPT ![t] =
                     [NoObs EXCEPT !.absent = (k \notin DOMAIN hist.value),
                                   !.sessAbsent = (k \in hist.sessRemoved),
                                   !.snapLen = Len(files[writer[w].path]),
                                   !.snapPos = writer[w].position,
                                   !.snapIndex = index[handle[t].index]]]
        /\ hist' = [hist EXCEPT !.justOpened = FALSE]
        /\ UNCHANGED <<files, index, handle, others>>

\* 136-141: index.remove; Some(previous) goes on to write the tombstone,
\* None goes to the Err branch.
RemoveLookup(t) ==
    LET w == handle[t].writer
        i == handle[t].index
        k == th[t].key
    IN  /\ th[t].pc = "rm_lookup"
        /\ ~RefHeld(i, k)
        /\ IF k \in DOMAIN index[i]
           THEN /\ index' = [index EXCEPT ![i] = IndexRemove(@, k)]
                /\ th' = [th EXCEPT
                            ![t].pc = "rm_write",
                            ![t].prev = index[i][k],
                            ![t].vd = ValueData(writer[w].position,
                                                Len(to_vec(RmRec(k))))]
                /\ hist' = [hist EXCEPT
                              !.value = [x \in (DOMAIN @) \ {k} |-> @[x]],
                              !.by[k] = t,
                              !.sessRemoved = @ \cup {k},
                              !.lastRet[k] = -1]
           ELSE /\ th' = [th EXCEPT ![t].pc = "rm_missing"]
                /\ UNCHANGED <<index, hist>>
        /\ UNCHANGED <<files, writer, handle, obs, others>>

\* 142: write_all of the tombstone.
RemoveWrite(t) ==
    LET w == handle[t].writer
    IN  /\ th[t].pc = "rm_write"
        /\ writer' = [writer EXCEPT ![w].buf = @ \o to_vec(RmRec(th[t].key))]
        /\ th' = [th EXCEPT ![t].pc = "rm_flush"]
        /\ UNCHANGED <<files, index, handle, obs, hist, others>>

\* 143: flush.
RemoveFlush(t) ==
    /\ th[t].pc = "rm_flush"
    /\ \E n \in 1..MaxValLen + 3 : FlushChunk(t, n, "rm_pos")
    /\ UNCHANGED <<index, handle, obs, hist, others>>

\* 144: writer.position += serialized.len().
RemovePosition(t) ==
    LET w == handle[t].writer
    IN  /\ th[t].pc = "rm_pos"
        /\ writer' = [writer EXCEPT ![w].position = @ + th[t].vd.size]
        /\ th' = [th EXCEPT ![t].pc = "rm_count"]
        /\ UNCHANGED <<files, index, handle, obs, hist, others>>

\* 145: fetch_add of the removed record's size plus the tombstone's size.
RemoveCount(t) ==
    /\ th[t].pc = "rm_count"
    /\ handle' = [handle EXCEPT ![t].uncompressed_bytes =
                    @ + th[t].prev.size + th[t].vd.size]
    /\ th' = [th EXCEPT ![t].pc = "rm_ret"]
    /\ hist' = [hist EXCEPT !.superseded = @ + th[t].prev.size + th[t].vd.size]
    /\ UNCHANGED <<files, writer, index, obs, others>>

\* Whether the store differs from what the call found when it took the mutex.
Effect(t) ==
    \/ Len(ActiveLog(t)) # obs[t].snapLen
    \/ writer[handle[t].writer].position # obs[t].snapPos
    \/ index[handle[t].index] # obs[t].snapIndex

\* 146: Ok(()), the MutexGuard is dropped.
RemoveReturn(t) ==
    LET w == handle[t].writer
    IN  /\ th[t].pc = "rm_ret"
        /\ writer' = [writer EXCEPT ![w].lock = 0]
        /\ th' = [th EXCEPT ![t].pc = "idle", ![t].res = OkUnit]
        /\ obs' = [obs EXCEPT ![t].effect = Effect(t)]
        /\ UNCHANGED <<files, index, handle, hist, others>>

\* 148: Err(KvsError::NonExistantKey), the MutexGuard is dropped.
RemoveMissing(t) ==
    LET w == handle[t].writer
    IN  /\ th[t].pc = "rm_missing"
        /\ writer' = [writer EXCEPT ![w].lock = 0]
        /\ th' = [th EXCEPT ![t].pc = "idle", ![t].res = ErrNonExistantKey]
        /\ obs' = [obs EXCEPT ![t].effect = Effect(t)]
        /\ UNCHANGED <<files, index, handle, hist, others>>

(***************************************************************************)
(* Dropping every handle and KvStore::open on the same directory,          *)
(* lines 176-203 and 225-254.                                              *)
(***************************************************************************)
\* read_dir lists the entries in no particular order: any of them can be
\* the first; an empty directory gets a new file name (get_new_file_path).
FirstEntries == IF DOMAIN files = {} THEN {KvsFile} ELSE DOMAIN files

\* compress_dir_files: the first entry read_dir yields is the active file
\* (created if the directory was empty); a further entry with extension kvs
\* makes io::copy read from the write-only active file, which fails.
CompressDirFiles(first) ==
    [ok |-> \A f \in (DOMAIN files) \ {first} : ~HasKvsExtension(f),
     path |-> first,
     created |-> first \notin DOMAIN files]

Reopen ==
    /\ hist.reopens < MaxReopen
    /\ \A t \in Threads : th[t].pc = "idle"
    /\ \E first \in FirstEntries :
         LET dir == CompressDirFiles(first)
             bytes == IF dir.created THEN <<>> ELSE files[dir.path]
             replay == Replay(bytes, 0, EmptyIndex)
             opened == dir.ok /\ replay.ok
         IN  /\ files' = [f \in (DOMAIN files) \cup {dir.path} |->
                            IF f \in DOMAIN files THEN files[f] ELSE <<>>]
             /\ writer' = [s \in Slots |->
                            IF s = 1 /\ opened
                            THEN [path |-> dir.path,
                                  position |-> Len(bytes),
                                  buf |-> <<>>, lock |-> 0]
                            ELSE IdleWriter]
             /\ index' = [s \in Slots |->
                            IF s = 1 /\ opened THEN replay.index
                            ELSE EmptyIndex]
             /\ handle' = [t \in Threads |->
                            IF t = 1 /\ opened THEN OpenedHandle(dir.path)
                            ELSE NoHandle]
             /\ hist' = [hist EXCEPT
                           !.reopens = @ + 1,
                           !.justOpened = TRUE,
                           !.sessRemoved = {},
                           !.by = [k \in Keys |-> 0],
                           !.closedIndex = IF handle[1].alive
                                           THEN index[handle[1].index]
                                           ELSE EmptyIndex,
                           !.superseded = 0,
                           !.selected = dir.path,
                           !.created = dir.created]
    /\ th' = [t \in Threads |-> IdleThread]
    /\ obs' = [t \in Threads |-> NoObs]
    /\ UNCHANGED others

Next ==
    \/ \E s, t \in Threads : Clone(s, t)
    \/ \E t \in Threads, k \in Keys, v \in Values : SetLock(t, k, v)
    \/ \E t \in Threads : SetWrite(t)
    \/ \E t \in Threads : SetFlush(t)
    \/ \E t \in Threads : SetPosition(t)
    \/ \E t \in Threads : SetIndex(t)
    \/ \E t \in Threads : SetReturn(t)
    \/ \E t \in Threads, k \in Keys : GetLookup(t, k)
    \/ \E t \in Threads : GetRead(t)
    \/ \E t \in Threads, k \in Keys : RemoveLock(t, k)
    \/ \E t \in Threads : RemoveLookup(t)
    \/ \E t \in Threads : RemoveWrite(t)
    \/ \E t \in Threads : RemoveFlush(t)
    \/ \E t \in Threads : RemovePosition(t)
    \/ \E t \in Threads : RemoveCount(t)
    \/ \E t \in Threads : RemoveReturn(t)
    \/ \E t \in Threads : RemoveMissing(t)
    \/ Reopen

Spec == Init /\ [][Next]_vars

(***************************************************************************)
(* KvStore::open on a directory as it may be found: empty, or holding the  *)
(* log of an earlier run, or config.info, or both.                         *)
(***************************************************************************)
Directories ==
    { [f \in {} |-> <<>>],
      [f \in {KvsFile} |-> <<>>],
      [f \in {ConfigFile} |-> ConfigBytes],
      [f \in {ConfigFile, KvsFile} |-> IF f = ConfigFile THEN ConfigBytes ELSE <<>>] }

InitDir ==
    /\ pool = PoolInit(0)
    /\ srv = SrvInit
    /\ cfg = CfgInit(TRUE)
    /\ conn = ReqInit
    /\ lib = LibInit
    /\ files \in Directories
    /\ writer = [s \in Slots |-> IdleWriter]
    /\ index = [s \in Slots |-> EmptyIndex]
    /\ handle = [t \in Threads |-> NoHandle]
    /\ th = [t \in Threads |-> IdleThread]
    /\ obs = [t \in Threads |-> NoObs]
    /\ hist = InitHist

SpecDir == InitDir /\ [][Next]_vars

(***************************************************************************)
(* set and remove with a failing flush, lines 112 and 143.  write_all of   *)
(* a record only copies it into the BufWriter, whose capacity the record   *)
(* never exceeds, and to_vec of a key and a value cannot fail; what can    *)
(* fail is the write(2) that flush makes.  BufWriter keeps the bytes it    *)
(* could not write; `?` returns the error and drops the MutexGuard.        *)
(* hist.fails counts the failures.                                         *)
(***************************************************************************)
FlushFail(t) ==
    LET w == handle[t].writer
    IN  /\ hist.fails < MaxFails
        /\ writer' = [writer EXCEPT ![w].lock = 0]
        /\ th' = [th EXCEPT ![t].pc = "idle", ![t].res = ErrIO]
        /\ hist' = [hist EXCEPT !.fails = @ + 1]
        /\ UNCHANGED <<files, index, handle, obs, others>>

\* 112: flush()? returns the error.
SetFlushFail(t) ==
    /\ th[t].pc = "set_flush"
    /\ FlushFail(t)

\* 143: flush()? returns the error.
RemoveFlushFail(t) ==
    /\ th[t].pc = "rm_flush"
    /\ FlushFail(t)

FailNext ==
    \/ \E s, t \in Threads : Clone(s, t)
    \/ \E t \in Threads, k \in Keys, v \in Values : SetLock(t, k, v)
    \/ \E t \in Threads : SetWrite(t)
    \/ \E t \in Threads : SetFlush(t)
    \/ \E t \in Threads : SetFlushFail(t)
    \/ \E t \in Threads : SetPosition(t)
    \/ \E t \in Threads : SetIndex(t)
    \/ \E t \in Threads : SetReturn(t)
    \/ \E t \in Threads, k \in Keys : GetLookup(t, k)
    \/ \E t \in Threads : GetRead(t)
    \/ \E t \in Threads, k \in Keys : RemoveLock(t, k)
    \/ \E t \in Threads : RemoveLookup(t)
    \/ \E t \in Threads : RemoveWrite(t)
    \/ \E t \in Threads : RemoveFlush(t)
    \/ \E t \in Threads : RemoveFlushFail(t)
    \/ \E t \in Threads : RemovePosition(t)
    \/ \E t \in Threads : RemoveCount(t)
    \/ \E t \in Threads : RemoveReturn(t)
    \/ \E t \in Threads : RemoveMissing(t)

SpecFail == Init /\ [][FailNext]_vars

(***************************************************************************)
(* compact_file, lines 256-289: its body is commented out, what is left is *)
(* Ok(()).  No function of the store calls it; the specification below     *)
(* adds it to the operations, as a call on a handle.                       *)
(***************************************************************************)
CompactFile(t) ==
    /\ handle[t].alive
    /\ th[t].pc = "idle"
    /\ th' = [th EXCEPT ![t] = [IdleThread EXCEPT !.op = "compact",
                                                  !.res = OkUnit]]
    /\ UNCHANGED <<files, writer, index, handle, obs, hist, others>>

CompactNext ==
    \/ Next
    \/ \E t \in Threads : CompactFile(t)

SpecCompact == Init /\ [][CompactNext]_vars

(***************************************************************************)
(* SharedQueueThreadPool: the worker loop (Worker::new, lines 24-46),      *)
(* spawn (72-83) and drop (85-104).                                        *)
(***************************************************************************)
engine == <<files, writer, index, handle, th, obs, hist>>

\* The Receiver lives as long as a worker thread holds its Arc.
ReceiverAlive ==
    \E w \in Workers : pool.worker[w].pc \in {"lock", "recv", "run"}

\* Sender::send: the message is queued, or lost if the Receiver is gone.
Send(q, msg) == IF ReceiverAlive THEN Append(q, msg) ELSE q

\* 25: receiver.lock().  The guard (or the PoisonError holding it) is bound
\* in the match arm and lives until the arm ends.
WorkerLock(w) ==
    /\ pool.worker[w].pc = "lock"
    /\ pool.lock = 0
    /\ pool' = IF pool.poisoned
               THEN pool
               ELSE [pool EXCEPT !.lock = w, !.worker[w].pc = "recv"]
    /\ UNCHANGED <<engine, srv, rest>>

\* Variant: recv takes the message sent last.
WorkerRecvNewest(w) ==
    /\ pool.worker[w].pc = "recv"
    /\ IF pool.queue # <<>>
       THEN LET msg == pool.queue[Len(pool.queue)]
            IN  IF msg.kind = "Run"
                THEN pool' = [pool EXCEPT
                                !.queue = SubSeq(@, 1, Len(@) - 1),
                                !.worker[w] = [pc |-> "run", job |-> msg.job],
                                !.job[msg.job] = [status |-> "running",
                                                  by |-> w,
                                                  runs |-> @.runs + 1],
                                !.started = Append(@, msg.job)]
                ELSE pool' = [pool EXCEPT
                                !.queue = SubSeq(@, 1, Len(@) - 1),
                                !.worker[w].pc = "exited",
                                !.lock = 0]
       ELSE /\ ~pool.sender
            /\ pool' = [pool EXCEPT !.worker[w].pc = "lock", !.lock = 0]
    /\ UNCHANGED <<engine, srv, rest>>

\* 26-41: receiver.recv() with the guard held.  A Run message starts its
\* job, still under the guard; Shutdown returns from the thread; an error
\* (channel empty and Sender dropped) is printed and the loop goes on.
WorkerRecv(w) ==
    /\ pool.worker[w].pc = "recv"
    /\ IF pool.queue # <<>>
       THEN LET msg == Head(pool.queue)
            IN  IF msg.kind = "Run"
                THEN pool' = [pool EXCEPT
                                !.queue = Tail(@),
                                !.worker[w] = [pc |-> "run", job |-> msg.job],
                                !.job[msg.job] = [status |-> "running",
                                                  by |-> w,
                                                  runs |-> @.runs + 1],
                                !.started = Append(@, msg.job)]
                ELSE pool' = [pool EXCEPT
                                !.queue = Tail(@),
                                !.worker[w].pc = "exited",
                                !.lock = 0]
       ELSE /\ ~pool.sender
            /\ pool' = [pool EXCEPT !.worker[w].pc = "lock", !.lock = 0]
    /\ UNCHANGED <<engine, srv, rest>>

\* 29, job returns: catch_unwind gives Ok, the arm ends, the guard is dropped.
WorkerJobDone(w) ==
    /\ pool.worker[w].pc = "run"
    /\ pool' = [pool EXCEPT
                  !.job[pool.worker[w].job].status = "done",
                  !.worker[w] = [pc |-> "lock", job |-> 0],
                  !.lock = 0]
    /\ UNCHANGED <<engine, srv, rest>>

\* Variant: the panic is not caught; the thread unwinds with the guard held.
WorkerJobPanicUncaught(w) ==
    /\ pool.worker[w].pc = "run"
    /\ pool' = [pool EXCEPT
                  !.job[pool.worker[w].job].status = "panicked",
                  !.worker[w] = [pc |-> "dead", job |-> 0],
                  !.poisoned = TRUE,
                  !.lock = 0]
    /\ UNCHANGED <<engine, srv, rest>>

\* 29-31, job panics: catch_unwind gives Err, which is printed; the arm ends
\* outside any unwinding, the guard is dropped.
WorkerJobPanic(w) ==
    /\ pool.worker[w].pc = "run"
    /\ pool' = [pool EXCEPT
                  !.job[pool.worker[w].job].status = "panicked",
                  !.worker[w] = [pc |-> "lock", job |-> 0],
                  !.lock = 0]
    /\ UNCHANGED <<engine, srv, rest>>

\* 72-83: spawn sends Run(job); a send error is printed and the job dropped.
Spawn ==
    /\ pool.owner = "live"
    /\ pool.spawned < MaxJobs
    /\ LET j == pool.spawned + 1
       IN  pool' = [pool EXCEPT
                      !.spawned = j,
                      !.queue = Send(@, RunMsg(j)),
                      !.job[j].status = IF ReceiverAlive THEN "queued"
                                        ELSE "discarded"]
    /\ UNCHANGED <<engine, srv, rest>>

\* Variant: thread::panicking() is not looked at.
DropBeginAlways(panicking) ==
    /\ pool.owner = "live"
    /\ pool' = [pool EXCEPT !.panicking = panicking, !.owner = "dropping"]
    /\ UNCHANGED <<engine, srv, rest>>

\* 86-90: drop begins; while the thread is unwinding from a panic it returns
\* at once (the fields, the Sender among them, are dropped after it).
DropBegin(panicking) ==
    /\ pool.owner = "live"
    /\ pool' = IF panicking
               THEN [pool EXCEPT !.panicking = TRUE,
                                 !.owner = "dropped",
                                 !.sender = FALSE]
               ELSE [pool EXCEPT !.owner = "dropping"]
    /\ UNCHANGED <<engine, srv, rest>>

\* Variant: one Shutdown too few.
DropSendShort ==
    /\ pool.owner = "dropping"
    /\ pool.sent < pool.n
    /\ pool' = [pool EXCEPT
                  !.sent = @ + 1,
                  !.queue = IF pool.sent = 0 THEN @ ELSE Send(@, ShutdownMsg)]
    /\ UNCHANGED <<engine, srv, rest>>

\* 91-95: one Shutdown is sent per worker.
DropSend ==
    /\ pool.owner = "dropping"
    /\ pool.sent < pool.n
    /\ pool' = [pool EXCEPT !.sent = @ + 1, !.queue = Send(@, ShutdownMsg)]
    /\ UNCHANGED <<engine, srv, rest>>

\* Variant: the thread is not waited for.
DropJoinNoWait ==
    /\ pool.owner = "dropping"
    /\ pool.sent = pool.n
    /\ pool.joined < pool.n
    /\ pool' = [pool EXCEPT !.joined = @ + 1]
    /\ UNCHANGED <<engine, srv, rest>>

\* 96-102: the workers are joined in the order of the vector; join returns
\* when the thread has ended.
DropJoin ==
    /\ pool.owner = "dropping"
    /\ pool.sent = pool.n
    /\ pool.joined < pool.n
    /\ pool.worker[pool.joined + 1].pc \in {"exited", "dead"}
    /\ pool' = [pool EXCEPT !.joined = @ + 1]
    /\ UNCHANGED <<engine, srv, rest>>

\* 103: drop returns; the Sender is dropped with the other fields.
DropEnd ==
    /\ pool.owner = "dropping"
    /\ pool.sent = pool.n
    /\ pool.joined = pool.n
    /\ pool' = [pool EXCEPT !.owner = "dropped", !.sender = FALSE]
    /\ UNCHANGED <<engine, srv, rest>>

PoolNext ==
    \/ \E w \in Workers : WorkerLock(w)
    \/ \E w \in Workers : WorkerRecv(w)
    \/ \E w \in Workers : WorkerJobDone(w)
    \/ \E w \in Workers : WorkerJobPanic(w)
    \/ Spawn
    \/ \E panicking \in BOOLEAN : DropBegin(panicking)
    \/ DropSend
    \/ DropJoin
    \/ DropEnd

\* The pool right after new(n), for every n up to MaxWorkers.
InitPool ==
    /\ \E n \in 0..MaxWorkers : pool = PoolInit(n)
    /\ srv = SrvInit
    /\ cfg = CfgInit(TRUE)
    /\ conn = ReqInit
    /\ lib = LibInit
    /\ files = [f \in {KvsFile} |-> <<>>]
    /\ writer = [s \in Slots |-> IdleWriter]
    /\ index = [s \in Slots |-> EmptyIndex]
    /\ handle = [t \in Threads |-> NoHandle]
    /\ th = [t \in Threads |-> IdleThread]
    /\ obs = [t \in Threads |-> NoObs]
    /\ hist = InitHist

SpecPool == InitPool /\ [][PoolNext]_vars

\* The threads are scheduled, and every job ends (returns or panics).
SpecPoolFair ==
    /\ InitPool
    /\ [][PoolNext]_vars
    /\ \A w \in Workers : WF_vars(WorkerLock(w))
    /\ \A w \in Workers : WF_vars(WorkerRecv(w))
    /\ \A w \in Workers : WF_vars(WorkerJobDone(w) \/ WorkerJobPanic(w))
    /\ WF_vars(DropSend)
    /\ WF_vars(DropJoin)
    /\ WF_vars(DropEnd)

(***************************************************************************)
(* kvs-server (bin/kvs-server.rs, start_listening): the accept loop hands  *)
(* each accepted connection to NaiveThreadPool::spawn, which is            *)
(* thread::spawn(job) (thread_pool/naive.rs): the handler of connection c  *)
(* is a thread of its own from the accept on.  srv.conn[c] is the position *)
(* of that thread: "parse" reading the request, "dispatch" in the store    *)
(* call and the response, "done" after the closure has returned.  The      *)
(* store call itself is the set/get/remove of Spec.                        *)
(***************************************************************************)
Handlers == {c \in Conns : srv.conn[c] \in {"parse", "dispatch"}}

\* listener.incoming() yields a stream: store.clone(), thread_pool.spawn
Accept ==
    /\ srv.accepted < MaxConns
    /\ srv' = [srv EXCEPT !.accepted = @ + 1, !.conn[srv.accepted + 1] = "parse"]
    /\ UNCHANGED <<engine, pool, rest>>

\* serde_json::from_reader(&s): Ok goes on to the store, Err is logged and
\* the closure returns without a response
HandlerParse(c) ==
    /\ srv.conn[c] = "parse"
    /\ \E ok \in BOOLEAN :
         srv' = [srv EXCEPT !.conn[c] = IF ok THEN "dispatch" ELSE "done"]
    /\ UNCHANGED <<engine, pool, rest>>

\* the store call has returned; response and "\n\n" written, stream dropped
HandlerRespond(c) ==
    /\ srv.conn[c] = "dispatch"
    /\ srv' = [srv EXCEPT !.conn[c] = "done"]
    /\ UNCHANGED <<engine, pool, rest>>

ServerNext ==
    \/ Accept
    \/ \E c \in Conns : HandlerParse(c)
    \/ \E c \in Conns : HandlerRespond(c)

SpecServer == Init /\ [][ServerNext]_vars

(***************************************************************************)
(* parse_kv_config (bin/kvs-server.rs, lines 32-60), run once per start of *)
(* the server; starts follow one another.  files is the database           *)
(* directory.                                                              *)
(***************************************************************************)
engineState == <<writer, index, handle, th, obs, hist>>

\* lines 33-36: the directory is created if missing, which may fail
ParseStart(e) ==
    /\ cfg.pc = "idle"
    /\ cfg.starts < MaxStarts
    /\ \E ok \in BOOLEAN :
         cfg' = [cfg EXCEPT
                   !.req = e,
                   !.starts = @ + 1,
                   !.before = IF ConfigFile \in DOMAIN files
                              THEN [exists |-> TRUE, bytes |-> files[ConfigFile]]
                              ELSE NoConfig,
                   !.dir = @ \/ ok,
                   !.pc = IF cfg.dir \/ ok THEN "check" ELSE "idle",
                   !.ret = IF cfg.dir \/ ok THEN CfgErr("Pending")
                           ELSE CfgErr("IOError")]
    /\ UNCHANGED <<files, engineState, pool, srv, conn, lib>>

\* Variant: a recorded engine that differs from the request is returned.
ReadConfigLenient(bytes, req) ==
    IF DecodeEngine(bytes) = NoEngine THEN CfgErr("SerializationError")
    ELSE CfgOk(DecodeEngine(bytes))

\* lines 38-53: config.info is read and compared with the request
ReadConfig(bytes, req) ==
    IF DecodeEngine(bytes) = NoEngine THEN CfgErr("SerializationError")
    ELSE IF req # NoEngine /\ DecodeEngine(bytes) # req THEN CfgErr("WrongEngine")
    ELSE CfgOk(DecodeEngine(bytes))

Returned(c, ret) ==
    [c EXCEPT !.pc = "idle",
              !.ret = ret,
              !.wrong = IF ret.kind = "WrongEngine" THEN 1 ELSE @,
              !.first = IF @ = NoEngine /\ ret.kind = "Ok" THEN ret.engine ELSE @]

\* Variant: the request is written over the recorded engine.
ConfigExistingOverwrite ==
    /\ cfg.pc = "check"
    /\ ConfigFile \in DOMAIN files
    /\ cfg' = Returned(cfg, IF cfg.req = NoEngine
                            THEN ReadConfig(files[ConfigFile], cfg.req)
                            ELSE CfgOk(cfg.req))
    /\ files' = IF cfg.req = NoEngine THEN files
                ELSE [files EXCEPT ![ConfigFile] = EngineJson(cfg.req)]
    /\ UNCHANGED <<engineState, pool, srv, conn, lib>>

\* line 37 true: lines 38-53
ConfigExisting ==
    /\ cfg.pc = "check"
    /\ ConfigFile \in DOMAIN files
    /\ cfg' = Returned(cfg, ReadConfig(files[ConfigFile], cfg.req))
    /\ UNCHANGED <<files, engineState, pool, srv, conn, lib>>

\* line 37 false, line 55: File::create, which may fail
ConfigCreate ==
    /\ cfg.pc = "check"
    /\ ConfigFile \notin DOMAIN files
    /\ \E ok \in BOOLEAN :
         IF ok
         THEN /\ files' = [f \in (DOMAIN files) \cup {ConfigFile} |->
                             IF f = ConfigFile THEN <<>> ELSE files[f]]
              /\ cfg' = [cfg EXCEPT !.pc = "write"]
         ELSE /\ files' = files
              /\ cfg' = Returned(cfg, CfgErr("IOError"))
    /\ UNCHANGED <<engineState, pool, srv, conn, lib>>

\* line 56
NewEngine(req) == IF req = NoEngine THEN "Kvs" ELSE req

\* lines 56-58: to_writer writes the whole text, or fails after a part of it
ConfigWrite ==
    /\ cfg.pc = "write"
    /\ LET json == EngineJson(NewEngine(cfg.req))
       IN  \E n \in 0..Len(json) :
             /\ files' = [files EXCEPT ![ConfigFile] = SubSeq(json, 1, n)]
             /\ cfg' = Returned(cfg, IF n = Len(json)
                                     THEN CfgOk(NewEngine(cfg.req))
                                     ELSE CfgErr("SerializationError"))
    /\ UNCHANGED <<engineState, pool, srv, conn, lib>>

ConfigNext ==
    \/ \E e \in Engines \cup {NoEngine} : ParseStart(e)
    \/ ConfigExisting
    \/ ConfigCreate
    \/ ConfigWrite

InitConfig ==
    /\ pool = PoolInit(0)
    /\ srv = SrvInit
    /\ \E dir \in BOOLEAN :
         /\ cfg = CfgInit(dir)
         /\ files \in IF dir THEN {[f \in {} |-> <<>>], [f \in {KvsFile} |-> <<>>]}
                      ELSE {[f \in {} |-> <<>>]}
    /\ writer = [s \in Slots |-> IdleWriter]
    /\ index = [s \in Slots |-> EmptyIndex]
    /\ handle = [t \in Threads |-> NoHandle]
    /\ th = [t \in Threads |-> IdleThread]
    /\ obs = [t \in Threads |-> NoObs]
    /\ hist = InitHist
    /\ conn = ReqInit
    /\ lib = LibInit

SpecConfig == InitConfig /\ [][ConfigNext]_vars

(***************************************************************************)
(* The request handlers of kvs-server with the store they call             *)
(* (start_listening, lines 65-88).  Each accepted connection is served by  *)
(* a thread of its own holding a clone of the listener's store; a thread   *)
(* slot serves a further connection after its handler has ended.           *)
(***************************************************************************)
\* line 68, store.clone(): the listener's store never runs an operation, so
\* its counter of uncompressed bytes, which the clone copies, is 0
StoreClone == OpenedHandle(writer[1].path)

HandlerEnded(t) == conn[t].pc \in {"none", "done", "closed", "panicked"}

\* The number of connections accepted so far.
RECURSIVE ServedBy(_)
ServedBy(T) ==
    IF T = {} THEN 0
    ELSE LET t == CHOOSE x \in T : TRUE
         IN  conn[t].served + ServedBy(T \ {t})

\* lines 65-69: a connection is accepted and its handler thread started
Serve(t) ==
    /\ HandlerEnded(t)
    /\ ServedBy(Threads) < MaxServed
    /\ conn' = [conn EXCEPT ![t] = [pc |-> "parse", request |-> NoRequest,
                                    out |-> <<>>, served |-> @.served + 1]]
    /\ handle' = [handle EXCEPT ![t] = StoreClone]
    /\ th' = [th EXCEPT ![t] = IdleThread]
    /\ UNCHANGED <<files, writer, index, obs, hist, pool, srv, cfg, lib>>

\* line 69, serde_json::from_reader(&s): a request, or (NoRequest) an error,
\* which is logged at lines 85-87 and ends the handler
ParseRequest(t) ==
    /\ conn[t].pc = "parse"
    /\ \E r \in Requests \cup {NoRequest} :
         IF r = NoRequest
         THEN /\ conn' = [conn EXCEPT ![t].pc = "closed"]
              /\ handle' = [handle EXCEPT ![t] = NoHandle]
         ELSE /\ conn' = [conn EXCEPT ![t].pc = "call", ![t].request = r]
              /\ handle' = handle
    /\ UNCHANGED <<files, writer, index, th, obs, hist, pool, srv, cfg, lib>>

\* lines 72-78: the call of the store that the request names
CallStore(t) ==
    /\ conn[t].pc = "call"
    /\ th[t].op = "none"
    /\ LET r == conn[t].request
       IN  \/ r.op = "set" /\ SetLock(t, r.key, r.val)
           \/ r.op = "get" /\ GetLookup(t, r.key)
           \/ r.op = "remove" /\ RemoveLock(t, r.key)

\* Variant: the result of the store is sent as it is.
EnvelopeUnmapped(op, res) == res

\* lines 73-77: .map(|_| None) on the result of set and remove
Envelope(op, res) ==
    IF op \in {"set", "remove"} /\ res.kind = "Ok" THEN OkNone ELSE res

\* lines 80-81: to_writer of the response; unwrap panics if the write fails
RespondValue(t) ==
    /\ conn[t].pc = "call"
    /\ th[t].op # "none"
    /\ th[t].pc = "idle"
    /\ \E ok \in BOOLEAN :
         IF ok
         THEN /\ conn' = [conn EXCEPT
                            ![t].pc = "delimiter",
                            ![t].out = Append(@, KvResponse(
                                          Envelope(th[t].op, th[t].res)))]
              /\ handle' = handle
         ELSE /\ conn' = [conn EXCEPT ![t].pc = "panicked"]
              /\ handle' = [handle EXCEPT ![t] = NoHandle]
    /\ UNCHANGED <<files, writer, index, th, obs, hist, pool, srv, cfg, lib>>

\* lines 82-83: the delimiter is written and the stream dropped
RespondDelimiter(t) ==
    /\ conn[t].pc = "delimiter"
    /\ \E ok \in BOOLEAN :
         conn' = [conn EXCEPT
                    ![t].pc = IF ok THEN "done" ELSE "panicked",
                    ![t].out = IF ok THEN Append(@, Delimiter) ELSE @]
    /\ handle' = [handle EXCEPT ![t] = NoHandle]
    /\ UNCHANGED <<files, writer, index, th, obs, hist, pool, srv, cfg, lib>>

StoreStep(t) ==
    \/ SetWrite(t) \/ SetFlush(t) \/ SetPosition(t) \/ SetIndex(t)
    \/ SetReturn(t)
    \/ GetRead(t)
    \/ RemoveLookup(t) \/ RemoveWrite(t) \/ RemoveFlush(t)
    \/ RemovePosition(t) \/ RemoveCount(t) \/ RemoveReturn(t)
    \/ RemoveMissing(t)

RequestNext ==
    \/ \E t \in Threads : Serve(t)
    \/ \E t \in Threads : ParseRequest(t)
    \/ \E t \in Threads : CallStore(t)
    \/ \E t \in Threads : StoreStep(t)
    \/ \E t \in Threads : RespondValue(t)
    \/ \E t \in Threads : RespondDelimiter(t)

\* The listener holds the store that KvStore::open returned for an empty
\* directory; no handler runs yet.
InitRequests ==
    /\ pool = PoolInit(0)
    /\ srv = SrvInit
    /\ cfg = CfgInit(TRUE)
    /\ conn = ReqInit
    /\ lib = LibInit
    /\ files = [f \in {KvsFile} |-> <<>>]
    /\ writer = [s \in Slots |->
                   IF s = 1 THEN [IdleWriter EXCEPT !.path = KvsFile]
                   ELSE IdleWriter]
    /\ index = [s \in Slots |-> EmptyIndex]
    /\ handle = [t \in Threads |-> NoHandle]
    /\ th = [t \in Threads |-> IdleThread]
    /\ obs = [t \in Threads |-> NoObs]
    /\ hist = InitHist

SpecRequests == InitRequests /\ [][RequestNext]_vars

(***************************************************************************)
(* The operations of the RwLock-based KvStore of lib.rs.  A step that      *)
(* takes the RwLock and releases it again is one action; the lock is seen  *)
(* held only where a thread never releases it.                             *)
(***************************************************************************)
notLib == <<engine, pool, srv, cfg, conn>>

\* get, lines 287-305, under the read lock: io is whether open, seek and
\* read_exact succeed
LibGetResult(k, io) ==
    LET key_map == lib.inner.key_map
    IN  IF lib.lock.poisoned THEN ErrSerialization
        ELSE IF k \notin DOMAIN key_map THEN OkNone
        ELSE IF ~io \/ key_map[k].file_path \notin DOMAIN lib.disk THEN ErrIO
        ELSE ReadValue(lib.disk[key_map[k].file_path], key_map[k])

LibCall(t, op, k) ==
    [IdleLibThread EXCEPT !.op = op, !.key = k]

\* get, lines 287-305
LibGet(t, k) ==
    /\ lib.t[t].pc = "idle"
    /\ lib.lock.writer = 0
    /\ \E io \in BOOLEAN :
         lib' = [lib EXCEPT !.t[t] =
                   [LibCall(t, "get", k) EXCEPT !.res = LibGetResult(k, io)]]
    /\ UNCHANGED notLib

\* set, line 284, up to the call of write_command
LibSet(t, k, v) ==
    /\ lib.t[t].pc = "idle"
    /\ lib.writes < MaxLibWrites
    /\ lib' = [lib EXCEPT
                 !.writes = @ + 1,
                 !.t[t] = [LibCall(t, "set", k) EXCEPT
                             !.pc = "write", !.command = SetRec(k, v)]]
    /\ UNCHANGED notLib

\* remove, lines 307-312: the get, and what its result is taken for
LibRemove(t, k) ==
    /\ lib.t[t].pc = "idle"
    /\ lib.writes < MaxLibWrites
    /\ lib.lock.writer = 0
    /\ \E io \in BOOLEAN :
         LET found == LibGetResult(k, io)
         IN  lib' = IF found.kind = "Some"
                    THEN [lib EXCEPT
                            !.writes = @ + 1,
                            !.t[t] = [LibCall(t, "remove", k) EXCEPT
                                        !.pc = "write", !.command = RmRec(k),
                                        !.lookup = found,
                                        !.seen = lib.inner.key_map[k]]]
                    ELSE [lib EXCEPT
                            !.t[t] = [LibCall(t, "remove", k) EXCEPT
                                        !.res = ErrNonExistantKey,
                                        !.lookup = found]]
    /\ UNCHANGED notLib

\* write_command, lines 398-413, under the write lock: the key_map entry is
\* inserted, then write_all appends the record or fails with nothing written
LibWrite(t) ==
    LET serialized == to_vec(lib.t[t].command)
        inner == lib.inner
        value_data == LibValueData(inner.bytes_in_last_file, Len(serialized),
                                   inner.active_file)
        k == lib.t[t].key
    IN  /\ lib.t[t].pc = "write"
        /\ lib.lock.writer = 0
        /\ IF lib.lock.poisoned
           THEN lib' = [lib EXCEPT !.t[t].pc = "idle",
                                   !.t[t].res = ErrSerialization]
           ELSE \E n \in {0, Len(serialized)} :
                  lib' = [lib EXCEPT
                            !.inner.key_map =
                                [x \in (DOMAIN @) \cup {k} |->
                                   IF x = k THEN value_data ELSE @[x]],
                            !.disk[inner.active_file] =
                                @ \o SubSeq(serialized, 1, n),
                            !.inner.bytes_in_last_file =
                                IF n = Len(serialized) THEN @ + n ELSE @,
                            !.t[t].pc =
                                IF n = Len(serialized) THEN "rotate" ELSE "idle",
                            !.t[t].res =
                                IF n = Len(serialized) THEN @ ELSE ErrIO,
                            !.last =
                                IF n = Len(serialized)
                                THEN [x \in (DOMAIN @) \cup {k} |->
                                        IF x = k THEN value_data ELSE @[x]]
                                ELSE @]
        /\ UNCHANGED notLib

\* write_command, lines 414-417, with alloc_new_file_if_needed, lines
\* 352-365: whatever alloc_new_file_if_needed returns, Ok(()) is returned.
\* With the file limit exceeded and LibInactiveLimit inactive files,
\* compact_files is called with the write guard alive, and its first
\* statement takes the read lock of the same RwLock (line 471): the thread
\* blocks for ever or panics, as std::sync::RwLock::read documents.
LibRotate(t) ==
    LET inner == lib.inner
        new == lib.created + 1
    IN  /\ lib.t[t].pc = "rotate"
        /\ lib.lock.writer = 0
        /\ IF lib.lock.poisoned
           THEN lib' = [lib EXCEPT !.t[t].pc = "idle",
                                   !.t[t].res = OkUnit,
                                   !.t[t].rotation = ErrSerialization]
           ELSE IF inner.bytes_in_last_file <= LibFileLimit
           THEN lib' = [lib EXCEPT !.t[t].pc = "idle",
                                   !.t[t].res = OkUnit,
                                   !.t[t].rotation = OkUnit]
           ELSE IF Len(inner.inactive_files) >= LibInactiveLimit
           THEN \/ lib' = [lib EXCEPT !.t[t].pc = "blocked",
                                      !.lock.writer = t]
                \/ lib' = [lib EXCEPT !.t[t].pc = "panicked",
                                      !.lock.poisoned = TRUE]
           ELSE \E ok \in BOOLEAN :
                  lib' = [lib EXCEPT
                            !.inner.inactive_files =
                                Append(@, inner.active_file),
                            !.inner.active_file = IF ok THEN new ELSE @,
                            !.inner.bytes_in_last_file = IF ok THEN 0 ELSE @,
                            !.created = IF ok THEN new ELSE @,
                            !.disk = IF ok
                                     THEN [f \in (DOMAIN @) \cup {new} |->
                                             IF f = new THEN <<>> ELSE @[f]]
                                     ELSE @,
                            !.t[t].pc = "idle",
                            !.t[t].res = OkUnit,
                            !.t[t].rotation = IF ok THEN OkUnit ELSE ErrIO]
        /\ UNCHANGED notLib

LibNext ==
    \/ \E t \in Threads, k \in Keys : LibGet(t, k)
    \/ \E t \in Threads, k \in Keys, v \in Values : LibSet(t, k, v)
    \/ \E t \in Threads, k \in Keys : LibRemove(t, k)
    \/ \E t \in Threads : LibWrite(t)
    \/ \E t \in Threads : LibRotate(t)

SpecLib == Init /\ [][LibNext]_vars

(***************************************************************************)
(* KvStore::open of lib.rs on the directory that an earlier store left:    *)
(* the process has ended (no call is in progress) and a new one opens the  *)
(* directory.  fs::read_dir returns the entries in an order the platform   *)
(* chooses, which a listing stands for.                                    *)
(***************************************************************************)
\* The orders in which read_dir may return the .kvs files of the directory.
LibListings ==
    LET n == Cardinality(DOMAIN lib.disk)
    IN  {s \in [1..n -> DOMAIN lib.disk] :
            \A i, j \in 1..n : i # j => s[i] # s[j]}

\* The closure of open, lines 454-461: Set and Rm both insert.
LibOpenApply(key_map, rec, vd) ==
    [x \in (DOMAIN key_map) \cup {rec.key} |->
        IF x = rec.key THEN vd ELSE key_map[x]]

\* deserialize_files, lines 424-441, for one file
RECURSIVE LibReplayFile(_, _, _)
LibReplayFile(path, position, acc) ==
    LET file == lib.disk[path]
        n == RecordLen(file, position + 1)
    IN  IF ~acc.ok \/ position >= Len(file) THEN acc
        ELSE IF n = 0 THEN [acc EXCEPT !.ok = FALSE]
        ELSE LibReplayFile(path, position + n,
                 [acc EXCEPT !.key_map =
                     LibOpenApply(@, RecordAt(file, position + 1),
                                  LibValueData(position, n, path))])

\* deserialize_files, lines 420-443, over all_files
RECURSIVE deserialize_files(_, _, _)
deserialize_files(all_files, i, acc) ==
    IF i > Len(all_files) THEN acc
    ELSE deserialize_files(all_files, i + 1,
                           LibReplayFile(all_files[i], 0, acc))

\* new, lines 367-395: the file listed last becomes the active file and
\* gives bytes_in_last_file, the others are the inactive files as listed
LibNew(listing) ==
    [bytes_in_last_file |-> Len(lib.disk[listing[Len(listing)]]),
     active_file |-> listing[Len(listing)],
     inactive_files |-> SubSeq(listing, 1, Len(listing) - 1),
     key_map |-> [k \in {} |-> LibValueData(0, 0, 0)]]

\* open, lines 445-468
LibOpen ==
    /\ lib.opens < MaxLibOpens
    /\ \A t \in Threads : lib.t[t].pc = "idle"
    /\ \E listing \in LibListings :
         LET inner == LibNew(listing)
             all_files == Append(inner.inactive_files, inner.active_file)
             replayed == deserialize_files(all_files, 1,
                             [ok |-> TRUE, key_map |-> inner.key_map])
         IN  lib' = [lib EXCEPT
                       !.inner = IF replayed.ok
                                 THEN [inner EXCEPT
                                         !.key_map = replayed.key_map]
                                 ELSE @,
                       !.lock = [writer |-> 0, poisoned |-> FALSE],
                       !.t = [t \in Threads |-> IdleLibThread],
                       !.opens = @ + 1,
                       !.opened = [listing |-> listing,
                                   newest |-> lib.created,
                                   ok |-> replayed.ok,
                                   active_file |-> inner.active_file,
                                   key_map |-> replayed.key_map,
                                   last |-> lib.last]]
    /\ UNCHANGED notLib

LibOpenNext ==
    \/ LibNext
    \/ LibOpen

SpecLibOpen == Init /\ [][LibOpenNext]_vars

(***************************************************************************)
(* RayonThreadPool (thread_pool/rayon.rs, and lib.rs lines 173-194): new   *)
(* builds a rayon pool, spawn is install(job), which runs the job on a     *)
(* thread of the pool while the caller waits for it; a panic of the job    *)
(* is passed on to the caller.  pool.result is what new returned,          *)
(* pool.failed whether the build failed.                                   *)
(***************************************************************************)
ErrThreadPoolBuild == [kind |-> "ThreadPoolBuildError", val |-> <<>>]

\* Variant: the build error keeps its own kind.
FromThreadPoolBuildErrorOwnKind == ErrThreadPoolBuild

\* impl From<rayon::ThreadPoolBuildError> for KvsError, lib.rs lines 33-37
FromThreadPoolBuildError == ErrIO

\* num_threads(0) lets rayon choose the number of threads
RayonThreads(n) == IF n = 0 THEN MaxWorkers ELSE n

\* new, lines 8-17: build()? with the conversion of its error
RayonNew(n, ok) ==
    /\ pool.owner = "none"
    /\ pool' = IF ok
               THEN [PoolInit(RayonThreads(n)) EXCEPT
                       !.n = n,
                       !.worker = [w \in Workers |->
                                     [pc |-> IF w <= RayonThreads(n)
                                             THEN "idle" ELSE "none",
                                      job |-> 0]]]
               ELSE [pool EXCEPT !.owner = "failed",
                                 !.failed = TRUE,
                                 !.result = FromThreadPoolBuildError]
    /\ UNCHANGED <<engine, srv, rest>>

\* spawn, lines 19-24: install hands the job to a thread of the pool
RayonSpawn(w) ==
    /\ pool.owner = "live"
    /\ pool.spawned < MaxJobs
    /\ pool.worker[w].pc = "idle"
    /\ LET j == pool.spawned + 1
       IN  pool' = [pool EXCEPT
                      !.owner = "waiting",
                      !.spawned = j,
                      !.worker[w] = [pc |-> "run", job |-> j],
                      !.job[j] = [status |-> "running", by |-> w, runs |-> 1],
                      !.started = Append(@, j)]
    /\ UNCHANGED <<engine, srv, rest>>

\* the job returns and with it install
RayonJobDone(w) ==
    /\ pool.owner = "waiting"
    /\ pool.worker[w].pc = "run"
    /\ pool' = [pool EXCEPT
                  !.owner = "live",
                  !.worker[w].pc = "idle",
                  !.job[pool.worker[w].job].status = "done"]
    /\ UNCHANGED <<engine, srv, rest>>

\* the job panics: install resumes the panic in the caller of spawn
RayonJobPanic(w) ==
    /\ pool.owner = "waiting"
    /\ pool.worker[w].pc = "run"
    /\ pool' = [pool EXCEPT
                  !.owner = "unwinding",
                  !.panicking = TRUE,
                  !.worker[w].pc = "idle",
                  !.job[pool.worker[w].job].status = "panicked"]
    /\ UNCHANGED <<engine, srv, rest>>

\* the RayonThreadPool is dropped, by its owner or while the panic of a
\* job unwinds the owner: the rayon pool ends its threads
RayonDrop ==
    /\ pool.owner \in {"live", "unwinding"}
    /\ pool' = [pool EXCEPT
                  !.owner = "dropped",
                  !.sender = FALSE,
                  !.worker = [w \in Workers |->
                                [@[w] EXCEPT !.pc = IF @ = "idle"
                                                    THEN "exited" ELSE @]]]
    /\ UNCHANGED <<engine, srv, rest>>

RayonNext ==
    \/ \E n \in 0..MaxWorkers, ok \in BOOLEAN : RayonNew(n, ok)
    \/ RayonDrop
    \/ \E w \in Workers : RayonSpawn(w)
    \/ \E w \in Workers : RayonJobDone(w)
    \/ \E w \in Workers : RayonJobPanic(w)

InitRayon ==
    /\ pool = [PoolInit(0) EXCEPT !.owner = "none", !.result = NoResult]
    /\ srv = SrvInit
    /\ cfg = CfgInit(TRUE)
    /\ conn = ReqInit
    /\ lib = LibInit
    /\ files = [f \in {KvsFile} |-> <<>>]
    /\ writer = [s \in Slots |-> IdleWriter]
    /\ index = [s \in Slots |-> EmptyIndex]
    /\ handle = [t \in Threads |-> NoHandle]
    /\ th = [t \in Threads |-> IdleThread]
    /\ obs = [t \in Threads |-> NoObs]
    /\ hist = InitHist

SpecRayon == InitRayon /\ [][RayonNext]_vars

TypeOK ==
    /\ \A t \in Threads : th[t].pc \in {"idle", "set_write", "set_flush",
           "set_pos", "set_index", "set_ret", "get_read", "rm_lookup",
           "rm_write", "rm_flush", "rm_pos", "rm_count", "rm_ret", "rm_missing"}
    /\ \A s \in Slots : writer[s].lock \in 0..NThreads

(***************************************************************************)
(* Vocabulary of the properties.                                           *)
(***************************************************************************)
Done(t, op) == th[t].pc = "idle" /\ th[t].op = op /\ th[t].res # NoResult

InCritical(t) == th[t].pc \notin {"idle", "get_read"}

Log == files[KvsFile]

\* The complete records of a file, in file order, with their locations.
RECURSIVE Records(_, _)
Records(file, position) ==
    IF position >= Len(file) \/ RecordLen(file, position + 1) = 0 THEN <<>>
    ELSE <<[rec |-> RecordAt(file, position + 1), offset |-> position,
            size |-> RecordLen(file, position + 1)]>>
         \o Records(file, position + RecordLen(file, position + 1))

LogRecords == Records(Log, 0)

RecordsOf(k) == {i \in 1..Len(LogRecords) : LogRecords[i].rec.key = k}

MaxOf(S) == CHOOSE x \in S : \A y \in S : y <= x

LastRecordOf(k) == LogRecords[MaxOf(RecordsOf(k))]

LastIsSet(k) == RecordsOf(k) # {} /\ LastRecordOf(k).rec.tag = "Set"
LastIsRm(k) == RecordsOf(k) # {} /\ LastRecordOf(k).rec.tag = "Rm"

C2_ReopenKeepsLastSet ==
    hist.justOpened =>
        /\ handle[1].alive
        /\ \A k \in DOMAIN hist.value : GetOutcome(1, k) = OkSome(hist.value[k])

C2_Witness ==
    /\ hist.justOpened
    /\ \E k \in DOMAIN hist.value :
         \E i, j \in RecordsOf(k) : i < j /\ LogRecords[i].rec.val # LogRecords[j].rec.val

\* C3: right after the store is dropped and opened again, get(k) yields None
\* for every key whose last operation before was a successful remove.
C3_ReopenKeepsRemove ==
    hist.justOpened =>
        \A k \in Keys : LastIsRm(k) => GetOutcome(1, k) = OkNone

C3_Witness ==
    /\ hist.justOpened
    /\ handle[1].alive
    /\ \E k \in Keys : LastIsRm(k) /\ k \notin DOMAIN hist.value

\* C4: within one session, once remove(k) has taken k out of the index and no
\* set(k, _) followed, get(k) returns None and remove(k) returns
\* NonExistantKey; a remove that returns NonExistantKey has appended nothing
\* and changed neither the index nor the writer position.
C4_RemoveThenAbsent ==
    \A t \in Threads :
        /\ Done(t, "remove") /\ obs[t].sessAbsent => th[t].res = ErrNonExistantKey
        /\ Done(t, "remove") /\ th[t].res = ErrNonExistantKey => ~obs[t].effect
        /\ Done(t, "get") /\ obs[t].sessAbsent => th[t].res = OkNone

C4_Witness ==
    \E t, u \in Threads :
        /\ Done(t, "remove") /\ obs[t].sessAbsent
        /\ th[t].res = ErrNonExistantKey
        /\ Done(u, "get") /\ obs[u].sessAbsent /\ th[u].key = th[t].key

\* C5: a remove(k) of a key that holds no value returns NonExistantKey and
\* appends no tombstone, also when the key was removed before the store was
\* dropped and opened again.
C5_RemoveAbsentAcrossReopen ==
    \A t \in Threads :
        Done(t, "remove") /\ obs[t].absent =>
            th[t].res = ErrNonExistantKey /\ ~obs[t].effect

\* The index that replaying the log is meant to give: an entry for exactly
\* the keys whose last record is a Set, at that record's location.
LiveIndex ==
    [k \in {x \in Keys : LastIsSet(x)} |->
        ValueData(LastRecordOf(k).offset, LastRecordOf(k).size)]

\* C6: right after open, the index has an entry for exactly the keys whose
\* last record in the log is a Set, each at the location of that record, and
\* it is the index the engine held before it was closed.
C6_OpenRebuildsIndex ==
    hist.justOpened =>
        /\ index[handle[1].index] = LiveIndex
        /\ index[handle[1].index] = hist.closedIndex

SetRecords == SelectSeq(LogRecords, LAMBDA r : r.rec.tag = "Set")

SetsOn(k) == {i \in 1..Len(hist.order) : hist.order[i].key = k}

C11_SharedCounter ==
    \A t \in Threads :
        handle[t].alive => handle[t].uncompressed_bytes = hist.superseded

\* The model's stand-in for the compaction threshold COMPACT_BYTES, scaled
\* to the size of the logs of the model.
CompactThreshold == 3

LiveBytes ==
    LET live == {i \in 1..Len(LogRecords) :
                    /\ LogRecords[i].rec.tag = "Set"
                    /\ i = MaxOf(RecordsOf(LogRecords[i].rec.key))}
        RECURSIVE Sum(_)
        Sum(S) == IF S = {} THEN 0
                  ELSE LET i == CHOOSE x \in S : TRUE
                       IN  LogRecords[i].size + Sum(S \ {i})
    IN  Sum(live)

\* C12: in a store opened on an empty directory, when no set or remove is
\* under way, the log is no larger than the live Set records plus the
\* compaction threshold, however often keys were overwritten.
C12_CompactionBoundsLog ==
    (hist.reopens = 0 /\ \A t \in Threads : ~InCritical(t)) =>
        Len(Log) <= LiveBytes + CompactThreshold

\* C13: a get whose index entry points at an Rm record returns a
\* SerializationError.
C13_GetOfTombstoneIsError ==
    \A t \in Threads :
        /\ Done(t, "get")
        /\ th[t].vd.size > 0
        /\ RecordAt(Log, th[t].vd.offset + 1).tag = "Rm"
        => th[t].res = ErrSerialization

\* C14: open selects as active file a file with extension kvs: the existing
\* one if the directory has one, a newly created one only if it has none; and
\* the store is then open on it.
C14_ActiveFileIsKvs ==
    hist.reopens > 0 =>
        /\ HasKvsExtension(hist.selected)
        /\ handle[1].alive
        /\ writer[handle[1].writer].path = hist.selected

(***************************************************************************)
(* Properties of the SharedQueueThreadPool.                                *)
(***************************************************************************)
PoolWorkers == {w \in Workers : w <= pool.n}

Finished(j) == pool.job[j].status \in {"done", "panicked"}

ShutdownsQueued ==
    Cardinality({i \in 1..Len(pool.queue) : pool.queue[i].kind = "Shutdown"})

\* C15: a panicking job does not end its worker and does not poison the
\* receiver mutex: the n workers are all alive until shutdown, and every job
\* that is queued, also after a panic, is eventually run to its end.
C15_PanicIsolation ==
    /\ [](/\ ~pool.poisoned
          /\ \A w \in PoolWorkers : pool.worker[w].pc # "dead"
          /\ pool.owner = "live" =>
               \A w \in PoolWorkers : pool.worker[w].pc \in {"lock", "recv", "run"})
    /\ \A j \in Jobs : (pool.job[j].status = "queued") ~> Finished(j)

C15_Witness ==
    \E i, j \in Jobs :
        /\ i < j
        /\ pool.job[i].status = "panicked"
        /\ pool.job[j].status = "done"
        /\ pool.job[j].by = pool.job[i].by
        /\ pool.owner = "live"

\* C16: a drop that is not part of a panic sends exactly n Shutdown
\* messages, each worker takes exactly one and ends, all n are joined, and
\* the drop eventually returns.
C16_GracefulShutdown ==
    /\ [](/\ pool.sent <= pool.n
          /\ ShutdownsQueued
               + Cardinality({w \in PoolWorkers : pool.worker[w].pc = "exited"})
             = pool.sent)
    /\ [](pool.owner = "dropped" /\ ~pool.panicking =>
            /\ pool.sent = pool.n
            /\ pool.joined = pool.n
            /\ \A w \in PoolWorkers : pool.worker[w].pc = "exited"
            /\ pool.queue = <<>>)
    /\ (pool.owner = "dropping") ~> (pool.owner = "dropped")

C16_Witness ==
    /\ pool.owner = "dropped"
    /\ ~pool.panicking
    /\ pool.n = MaxWorkers
    /\ \E j \in Jobs : pool.job[j].status = "panicked"
    /\ \A w \in PoolWorkers : pool.worker[w].pc = "exited"

\* C17 as stated: with n >= 1 workers no job runs twice, and when the drop of
\* the pool has returned every spawned job has been run to its end, once.
C17_NoCancellation ==
    /\ \A j \in Jobs : pool.job[j].runs <= 1
    /\ pool.owner = "dropped" /\ pool.n >= 1 =>
         \A j \in 1..pool.spawned : Finished(j) /\ pool.job[j].runs = 1

\* C17 amended: with n >= 1 workers no job runs twice and no Run message is
\* queued behind a Shutdown; when a drop that is not part of a panic has
\* returned, every spawned job has been run to its end, once.
C17_NoCancellationUnlessPanicking ==
    /\ \A j \in Jobs : pool.job[j].runs <= 1
    /\ \A a, b \in 1..Len(pool.queue) :
         a < b /\ pool.queue[a].kind = "Shutdown" => pool.queue[b].kind = "Shutdown"
    /\ pool.owner = "dropped" /\ ~pool.panicking /\ pool.n >= 1 =>
         \A j \in 1..pool.spawned : Finished(j) /\ pool.job[j].runs = 1

C17_Witness ==
    /\ pool.owner = "dropped"
    /\ ~pool.panicking
    /\ pool.n >= 1
    /\ pool.spawned = MaxJobs
    /\ \A j \in Jobs : Finished(j) /\ pool.job[j].runs = 1
    /\ \E i, j \in Jobs : pool.job[i].by # pool.job[j].by

\* C18: a drop during a panic has returned at once: no Shutdown was sent, no
\* worker was joined, no worker has ended.
C18_PanickingDropReturnsAtOnce ==
    pool.panicking =>
        /\ pool.owner = "dropped"
        /\ pool.sent = 0
        /\ pool.joined = 0
        /\ ShutdownsQueued = 0
        /\ \A w \in PoolWorkers : pool.worker[w].pc # "exited"

C18_Witness ==
    /\ pool.panicking
    /\ pool.owner = "dropped"
    /\ \E w \in PoolWorkers : pool.worker[w].pc = "run"
    /\ pool.queue # <<>>

\* C19: while one worker is executing a job, another worker that is idle can
\* take the receiver and so dequeue and start the next job.
C19_WorkersRunInParallel ==
    \A w, u \in Workers :
        /\ w # u
        /\ pool.worker[w].pc = "run"
        /\ pool.worker[u].pc = "lock"
        /\ pool.queue # <<>>
        => ENABLED WorkerLock(u)

\* C20: at no time are more than PoolThreads request handlers executing,
\* however many connections were accepted.
C20_AtMostPoolThreadsHandlers == Cardinality(Handlers) <= PoolThreads

(***************************************************************************)
(* Properties of the engine selection.                                     *)
(***************************************************************************)
Recorded == IF ConfigFile \in DOMAIN files THEN DecodeEngine(files[ConfigFile])
            ELSE NoEngine

StartReturned == cfg.pc = "idle" /\ cfg.starts > 0

\* C21: a start that finds an engine recorded in config.info fails with
\* WrongEngine and leaves config.info as it was when a different engine was
\* requested, and returns the recorded engine when none or the same was.
C21_WrongEngineRejected ==
    StartReturned /\ cfg.before.exists /\ DecodeEngine(cfg.before.bytes) # NoEngine =>
        LET recorded == DecodeEngine(cfg.before.bytes)
        IN  /\ cfg.req \notin {NoEngine, recorded} =>
                 /\ cfg.ret = CfgErr("WrongEngine")
                 /\ ConfigFile \in DOMAIN files
                 /\ files[ConfigFile] = cfg.before.bytes
            /\ cfg.req \in {NoEngine, recorded} => cfg.ret = CfgOk(recorded)

C21_Witness ==
    /\ StartReturned
    /\ cfg.before.exists
    /\ DecodeEngine(cfg.before.bytes) = "Sled"
    /\ cfg.req = "Kvs"
    /\ cfg.ret = CfgErr("WrongEngine")
    /\ Recorded = "Sled"

\* C22: a start that finds no config.info and succeeds has written the
\* requested engine (Kvs if none was requested) and returns it; an engine
\* once recorded in config.info is never changed by a later start; every
\* successful start returns the recorded engine, the one of the first
\* successful start.
C22_EngineChoicePersisted ==
    /\ [](StartReturned /\ cfg.ret.kind = "Ok" =>
            /\ cfg.ret.engine = Recorded
            /\ cfg.ret.engine = cfg.first
            /\ ~cfg.before.exists => cfg.ret.engine = NewEngine(cfg.req))
    /\ [][Recorded # NoEngine => Recorded' = Recorded]_vars

C22_Witness ==
    /\ StartReturned
    /\ cfg.starts = MaxStarts
    /\ cfg.wrong = 1
    /\ cfg.before.exists
    /\ cfg.ret = CfgOk("Kvs")
    /\ cfg.first = "Kvs"
    /\ cfg.req = NoEngine

(***************************************************************************)
(* Properties of the request handlers.                                     *)
(***************************************************************************)
\* C23: a handler whose request parsed and that ran to its end has called
\* the store once, with the operation of the request, and has written one
\* response and then the delimiter: Ok(None) after a successful set or
\* remove, the store's result after a get, the store's error otherwise
\* (NonExistantKey for the remove of a key without value); a handler whose
\* request did not parse has written nothing and has not called the store;
\* at no time has a handler written more than the response and the delimiter.
C23_OneResponsePerRequest ==
    \A t \in Threads :
        /\ conn[t].pc = "done" =>
             /\ Len(conn[t].out) = 2
             /\ conn[t].out[1].kind = "response"
             /\ conn[t].out[2] = Delimiter
             /\ th[t].op = conn[t].request.op
             /\ th[t].key = conn[t].request.key
             /\ th[t].op \in {"set", "remove"} /\ th[t].res = OkUnit =>
                  conn[t].out[1].value = OkNone
             /\ th[t].op = "get" => conn[t].out[1].value = th[t].res
             /\ th[t].res.kind \notin {"Ok", "Some", "None"} =>
                  conn[t].out[1].value = th[t].res
             /\ th[t].op = "remove" /\ obs[t].absent =>
                  conn[t].out[1].value = ErrNonExistantKey
        /\ conn[t].pc = "closed" =>
             /\ conn[t].out = <<>>
             /\ th[t].op = "none"
             /\ conn[t].request = NoRequest
        /\ Len(conn[t].out) <= 2
        /\ \A i \in 1..Len(conn[t].out) :
             (conn[t].out[i] = Delimiter) <=> (i = 2)

C23_Witness ==
    \E t, u \in Threads :
        /\ t # u
        /\ conn[t].pc = "done"
        /\ conn[t].request.op = "remove"
        /\ conn[t].out = <<KvResponse(ErrNonExistantKey), Delimiter>>
        /\ conn[t].served = 2
        /\ conn[u].pc = "done"
        /\ conn[u].request.op = "set"
        /\ conn[u].out = <<KvResponse(OkNone), Delimiter>>

(***************************************************************************)
(* Properties of the RwLock-based KvStore of lib.rs.                       *)
(***************************************************************************)
LibReturned(t) == lib.t[t].pc = "idle" /\ lib.t[t].res # NoResult

LibIsError(r) == r.kind \in {"IOError", "SerializationError"}

\* C24: a remove whose lookup of the key met an I/O, decoding or poisoning
\* error returns that error, and a set or remove whose file rotation failed
\* does not return Ok.
C24_ErrorsNotSwallowed ==
    \A t \in Threads :
        LibReturned(t) =>
            /\ lib.t[t].op = "remove" /\ LibIsError(lib.t[t].lookup) =>
                 lib.t[t].res = lib.t[t].lookup
            /\ LibIsError(lib.t[t].rotation) => lib.t[t].res.kind # "Ok"

\* C30: a set or remove that reaches the compaction returns: no thread is
\* stopped for ever in the call or leaves it by a panic.
C30_CompactionTerminates ==
    \A t \in Threads : lib.t[t].pc \notin {"blocked", "panicked"}

\* C25: when the build of the rayon pool fails, new returns an error of the
\* kind ThreadPoolBuildError.
C25_BuildErrorKind ==
    pool.failed => pool.result = ErrThreadPoolBuild

C28_PositionIsFileSize ==
    \A s \in Slots :
        writer[s].path # "" /\ writer[s].lock = 0 =>
            LET file == files[writer[s].path]
                recs == Records(file, 0)
            IN  /\ writer[s].position = Len(file)
                /\ writer[s].buf = <<>>
                /\ recs = <<>> => Len(file) = 0
                /\ recs # <<>> =>
                     recs[Len(recs)].offset + recs[Len(recs)].size = Len(file)
                /\ \A k \in DOMAIN index[s] :
                     \E i \in 1..Len(recs) :
                         /\ recs[i].offset = index[s][k].offset
                         /\ recs[i].size = index[s][k].size
                         /\ recs[i].rec.key = k

C28_Witness ==
    /\ writer[1].lock = 0
    /\ writer[1].position = Len(Log)
    /\ Len(LogRecords) >= 2
    /\ \E k \in DOMAIN index[1] : index[1][k].offset > 0
    /\ \E t, u \in Threads : t # u /\ Done(t, "set") /\ Done(u, "set")
    /\ hist.reopens = 0

\* C29 (I4): the counter of uncompacted bytes is 0 after open; a step other
\* than an open never lowers it; the index step of a set raises it by the
\* length of the record it supersedes (by 0 for a key without entry) and the
\* counting step of a remove by the length of the removed record plus the
\* length of the tombstone; it is 0 when compact_file has returned.
C29_UncompactedBytes ==
    /\ [](hist.justOpened /\ handle[1].alive =>
            handle[1].uncompressed_bytes = 0)
    /\ [](\A t \in Threads :
            Done(t, "compact") /\ handle[t].alive =>
                handle[t].uncompressed_bytes = 0)
    /\ [][\A t \in Threads :
            handle[t].alive /\ handle'[t].alive /\ hist'.reopens = hist.reopens =>
               LET now == handle[t].uncompressed_bytes
                   next == handle'[t].uncompressed_bytes
                   ix == index[handle[t].index]
               IN  /\ next >= now
                   /\ th[t].pc = "set_index" /\ th'[t].pc = "set_ret" =>
                        next = now + IF th[t].key \in DOMAIN ix
                                     THEN ix[th[t].key].size ELSE 0
                   /\ th[t].pc = "rm_count" /\ th'[t].pc = "rm_ret" =>
                        /\ th[t].prev = obs[t].snapIndex[th[t].key]
                        /\ next = now + th[t].prev.size
                                      + Len(to_vec(RmRec(th[t].key)))]_vars

\* C31: of two remove(k) calls that found the same record of k (so that no
\* set(k, _) came between their lookups), not both return Ok.
C31_OneRemoveWins ==
    \A t, u \in Threads :
        /\ t # u
        /\ LibReturned(t) /\ LibReturned(u)
        /\ lib.t[t].op = "remove" /\ lib.t[u].op = "remove"
        /\ lib.t[t].key = lib.t[u].key
        /\ lib.t[t].seen.size > 0
        /\ lib.t[t].seen = lib.t[u].seen
        => ~(lib.t[t].res = OkUnit /\ lib.t[u].res = OkUnit)

\* C32: after open, the most recently created file is the active file and
\* every key's index entry is the location of the record written last for
\* it, whatever the order of the directory listing.
C32_OpenFollowsCreationOrder ==
    lib.opens > 0 /\ lib.opened.ok =>
        /\ lib.opened.active_file = lib.opened.newest
        /\ \A k \in DOMAIN lib.opened.last :
              /\ k \in DOMAIN lib.opened.key_map
              /\ lib.opened.key_map[k] = lib.opened.last[k]

\* The index entry of key k in the index of slot i: a one-element set, or
\* the empty set when the index has no entry.
EntryOf(ix, k) == IF k \in DOMAIN ix THEN {ix[k]} ELSE {}

\* C33: a remove(k) that returns an I/O error leaves k's previous entry in
\* the index, and no step changes the index entry of k while a set(k, _)
\* is on its way to the flush that may fail, so that a failed set leaves
\* the entry as it was.
C33_FailedOpsChangeNothing ==
    [][\A t \in Threads :
         LET i == handle[t].index
             k == th[t].key
         IN  /\ th[t].pc = "rm_flush" /\ th'[t].pc = "idle"
                    /\ th'[t].res = ErrIO =>
                 EntryOf(index'[i], k) = {th[t].prev}
             /\ th[t].pc \in {"set_write", "set_flush"} =>
                 EntryOf(index'[i], k) = EntryOf(index[i], k)]_vars

\* C34: once the pool has been dropped, by a drop that ran to its end or by
\* one that returned at once during an unwinding panic, every worker thread
\* eventually has left its loop.
C34_WorkersTerminateAfterDrop ==
    (pool.owner = "dropped") ~>
        (\A w \in PoolWorkers : pool.worker[w].pc = "exited")

\* C35: jobs are numbered in the order of their spawn calls.  The jobs are
\* started in that order, so each worker runs its jobs in the order they
\* were sent; when a job has been started no job sent before it is still in
\* the queue; and when a worker has received a Shutdown, no job is still in
\* the queue.
C35_FifoOrder ==
    /\ \A i, j \in 1..Len(pool.started) :
          i < j => pool.started[i] < pool.started[j]
    /\ \A i \in 1..Len(pool.started) : \A a \in Jobs :
          a < pool.started[i] => pool.job[a].status # "queued"
    /\ (\E w \in PoolWorkers : pool.worker[w].pc = "exited") =>
          \A a \in Jobs : pool.job[a].status # "queued"

\* Three jobs were started, one worker ran two of them and another worker
\* one, and a worker has received its Shutdown.
C35_Witness ==
    /\ Len(pool.started) = MaxJobs
    /\ \E a, b, c \in Jobs :
          /\ a < b /\ b # c /\ a # c
          /\ pool.job[a].by = pool.job[b].by
          /\ pool.job[c].by \notin {0, pool.job[a].by}
          /\ pool.job[a].by # 0
    /\ \E w \in PoolWorkers : pool.worker[w].pc = "exited"

====
